---- MODULE Spec2Model ----
(***************************************************************************)
(* Model of the crate `combinations` (src/src/lib.rs): binary iteration     *)
(* over the indices 1 .. (1 << v.len()) - 1, each index decoded into the    *)
(* subset of v whose bit positions are set in it.                           *)
(*                                                                          *)
(* One call of one public function is one behaviour: a Call_* action is the *)
(* function's prologue (the accumulator, u_one, the range bound), an Iter_* *)
(* action is one pass through the body of its `for pos in 1..bound` loop,   *)
(* and Return is the loop's exit.  get_subset has no loop that another      *)
(* function observes, so a direct call of it is one action.                 *)
(*                                                                          *)
(* The index type u128 is modelled with IndexBits bits.  Rust's shifts       *)
(* check the shift amount only when overflow checks are compiled in (the    *)
(* debug profile): there `x << s` and `x >> s` panic for s >= bit width;    *)
(* without the checks (the release profile) the amount is masked to         *)
(* s % bit width.  Which of the two happens is decided by the build, so an  *)
(* overflowing shift is a choice between the two outcomes.                  *)
(***************************************************************************)
EXTENDS Integers, Sequences, FiniteSets, TLC

\* Bit width of the index type: u128 in the source, scaled down.
IndexBits == 5

\* Longest input vector: one element more than the index type has bits.
MaxLen == IndexBits + 1

\* 2^IndexBits: the index type holds 0 .. Modulus - 1.
Modulus == 2 ^ IndexBits

\* let u_one: u128 = 1;
u_one == 1

\* A faulty range start, 0..(u_one << v.len()): index 0 would be visited.
RangeStart_zero == u_one - 1

\* The start of the range `1..(u_one << v.len())`.
RangeStart == 1

\* A faulty range test, that of the inclusive range start..=end.
InRange_inclusive(p, end) == p <= end

\* `for pos in start..end` runs its body while pos < end (the end is excluded).
InRange(p, end) == p < end

(***************************************************************************)
(* Inputs.  The element type is generic (T: Copy) and the code never        *)
(* inspects an element, so vectors are enumerated up to a renaming of their *)
(* elements: the first element is 1 and each later element is at most one   *)
(* more than the largest element before it.  <<1,2,3>> and <<1,2,2,3>>, the *)
(* vectors of the crate's tests, are of this form.                          *)
(***************************************************************************)
RECURSIVE MaxOf(_)
MaxOf(s) ==
    IF s = <<>> THEN 0
    ELSE LET m == MaxOf(Tail(s)) IN IF Head(s) > m THEN Head(s) ELSE m

RECURSIVE VecsOfLen(_)
VecsOfLen(n) ==
    IF n = 0 THEN {<<>>}
    ELSE UNION {{Append(s, e) : e \in 1..(MaxOf(s) + 1)} : s \in VecsOfLen(n - 1)}

Vecs == UNION {VecsOfLen(n) : n \in 0..MaxLen}

\* The predicates a caller passes as `qualifies`.
Predicates == {"sum_lt_5", "starts_with_2", "never"}

RECURSIVE Sum(_)
Sum(s) == IF s = <<>> THEN 0 ELSE Head(s) + Sum(Tail(s))

\* qualifies(&subset): the closure of the tests (sum < 5) and two more.
Qualifies(q, s) ==
    CASE q = "sum_lt_5" -> Sum(s) < 5
      [] q = "starts_with_2" -> s # <<>> /\ s[1] = 2
      [] OTHER -> FALSE

(***************************************************************************)
(* Shifts of the index type.                                                *)
(***************************************************************************)
\* With overflow checks, a shift by s panics when s is not below the width.
ShiftOverflows(s) == s >= IndexBits

\* x << s without overflow checks: the amount is masked, high bits are lost.
wrapping_shl(x, s) == (x * (2 ^ (s % IndexBits))) % Modulus

\* x >> s without overflow checks: the amount is masked.
wrapping_shr(x, s) == x \div (2 ^ (s % IndexBits))

\* A faulty bit test, off by one position: (pos >> (i + 1)) & 1 == 1.
TestBit_next(p, i) == wrapping_shr(p, i + 1) % 2 = 1

\* (pos >> i) & 1 == 1
TestBit(p, i) == wrapping_shr(p, i) % 2 = 1

\* pos.count_ones()
RECURSIVE count_ones(_)
count_ones(p) == IF p = 0 THEN 0 ELSE (p % 2) + count_ones(p \div 2)

\* Two faulty size tests: `>` and `==` in the place of `!=`.
SizeMismatch_gt(p, rr) == count_ones(p) > rr

SizeMismatch_inverted(p, rr) == count_ones(p) = rr

\* if pos.count_ones() != r { continue; }
SizeMismatch(p, rr) == count_ones(p) # rr

(***************************************************************************)
(* get_subset: for i in 0..v.len() { if (pos >> i) & 1 == 1 { push v[i] } } *)
(***************************************************************************)
RECURSIVE get_subset_loop(_, _, _, _)
get_subset_loop(vv, p, i, acc) ==
    IF i >= Len(vv) THEN acc
    ELSE get_subset_loop(vv, p, i + 1,
                         IF TestBit(p, i) THEN Append(acc, vv[i + 1]) ELSE acc)

get_subset(vv, p) == get_subset_loop(vv, p, 0, <<>>)

\* With overflow checks `pos >> i` panics as soon as i reaches the bit width.
get_subset_overflows(vv) == \E i \in 0..(Len(vv) - 1) : ShiftOverflows(i)

(***************************************************************************)
(* The loop bodies: what one iteration does to the function's accumulator.  *)
(***************************************************************************)
\* subsets.push(get_subset(&v, pos));
all_body(vv, p, acc) == Append(acc, get_subset(vv, p))

\* A faulty body of all_qualifying: the subset is pushed whatever qualifies says.
all_qualifying_body_unfiltered(vv, q, p, acc) == Append(acc, get_subset(vv, p))

\* let subset = get_subset(&v, pos); if qualifies(&subset) { subsets.push(subset); }
all_qualifying_body(vv, q, p, acc) ==
    LET s == get_subset(vv, p) IN IF Qualifies(q, s) THEN Append(acc, s) ELSE acc

\* A faulty body of all_qualifying_positions: the 0-based offset pos - 1 is pushed.
all_qualifying_positions_body_offset(vv, q, p, acc) ==
    IF Qualifies(q, get_subset(vv, p)) THEN Append(acc, p - 1) ELSE acc

\* let subset = get_subset(&v, pos); if qualifies(&subset) { positions.push(pos); }
all_qualifying_positions_body(vv, q, p, acc) ==
    IF Qualifies(q, get_subset(vv, p)) THEN Append(acc, p) ELSE acc

\* if pos.count_ones() != r { continue; } subsets.push(get_subset(&v, pos));
combinations_body(vv, rr, p, acc) ==
    IF SizeMismatch(p, rr) THEN acc ELSE Append(acc, get_subset(vv, p))

\* A faulty body of combinations_positions: the 0-based offset pos - 1 is pushed.
combinations_positions_body_offset(vv, rr, p, acc) ==
    IF SizeMismatch(p, rr) THEN acc ELSE Append(acc, p - 1)

\* if pos.count_ones() != r { continue; } positions.push(pos);
combinations_positions_body(vv, rr, p, acc) ==
    IF SizeMismatch(p, rr) THEN acc ELSE Append(acc, p)

\* Whether the body of combinations_qualifying_positions reaches qualifies.
combinations_qualifying_positions_calls(rr, p) == ~SizeMismatch(p, rr)

\* if count_ones != r { continue; } if qualifies(&get_subset(..)) { positions.push(pos); }
combinations_qualifying_positions_body(vv, rr, q, p, acc) ==
    IF SizeMismatch(p, rr) THEN acc
    ELSE IF Qualifies(q, get_subset(vv, p)) THEN Append(acc, p) ELSE acc

(***************************************************************************)
(* The functions as a whole, for a call that does not panic: the body run   *)
(* for pos = 1, 2, .. while pos < u_one << v.len().                         *)
(***************************************************************************)
Bound(vv) == wrapping_shl(u_one, Len(vv))

RECURSIVE all_loop(_, _, _)
all_loop(vv, p, acc) ==
    IF ~InRange(p, Bound(vv)) THEN acc ELSE all_loop(vv, p + 1, all_body(vv, p, acc))
all(vv) == all_loop(vv, RangeStart, <<>>)

RECURSIVE all_qualifying_loop(_, _, _, _)
all_qualifying_loop(vv, q, p, acc) ==
    IF ~InRange(p, Bound(vv)) THEN acc
    ELSE all_qualifying_loop(vv, q, p + 1, all_qualifying_body(vv, q, p, acc))
all_qualifying(vv, q) == all_qualifying_loop(vv, q, RangeStart, <<>>)

RECURSIVE all_qualifying_positions_loop(_, _, _, _)
all_qualifying_positions_loop(vv, q, p, acc) ==
    IF ~InRange(p, Bound(vv)) THEN acc
    ELSE all_qualifying_positions_loop(vv, q, p + 1,
                                       all_qualifying_positions_body(vv, q, p, acc))
all_qualifying_positions(vv, q) == all_qualifying_positions_loop(vv, q, RangeStart, <<>>)

RECURSIVE combinations_loop(_, _, _, _)
combinations_loop(vv, rr, p, acc) ==
    IF ~InRange(p, Bound(vv)) THEN acc
    ELSE combinations_loop(vv, rr, p + 1, combinations_body(vv, rr, p, acc))
combinations(vv, rr) == combinations_loop(vv, rr, RangeStart, <<>>)

RECURSIVE combinations_positions_loop(_, _, _, _)
combinations_positions_loop(vv, rr, p, acc) ==
    IF ~InRange(p, Bound(vv)) THEN acc
    ELSE combinations_positions_loop(vv, rr, p + 1,
                                     combinations_positions_body(vv, rr, p, acc))
combinations_positions(vv, rr) == combinations_positions_loop(vv, rr, RangeStart, <<>>)

RECURSIVE combinations_qualifying_positions_loop(_, _, _, _, _)
combinations_qualifying_positions_loop(vv, rr, q, p, acc) ==
    IF ~InRange(p, Bound(vv)) THEN acc
    ELSE combinations_qualifying_positions_loop(vv, rr, q, p + 1,
             combinations_qualifying_positions_body(vv, rr, q, p, acc))
combinations_qualifying_positions(vv, rr, q) ==
    combinations_qualifying_positions_loop(vv, rr, q, RangeStart, <<>>)

(***************************************************************************)
(* The state of one call.                                                   *)
(***************************************************************************)
VARIABLES
    pc,         \* "idle", "loop", "returned" or "panicked"
    fn,         \* the function called
    v,          \* its argument v
    r,          \* its argument r (0 when it has none)
    qualifies,  \* its argument qualifies ("none" when it has none)
    pos,        \* the loop variable pos (get_subset: the argument pos)
    bound,      \* the end of the range, u_one << v.len()
    subset,     \* get_subset's return value
    subsets,    \* the accumulator `subsets`
    positions,  \* the accumulator `positions`
    calls,      \* the values of pos qualifies was invoked at, in order
    visited     \* the values of pos the loop body ran with, in order

vars == <<pc, fn, v, r, qualifies, pos, bound, subset, subsets, positions, calls, visited>>

Init ==
    /\ pc = "idle"
    /\ fn = "none"
    /\ v = <<>>
    /\ r = 0
    /\ qualifies = "none"
    /\ pos = 0
    /\ bound = 0
    /\ subset = <<>>
    /\ subsets = <<>>
    /\ positions = <<>>
    /\ calls = <<>>
    /\ visited = <<>>

\* pub fn get_subset(v, pos): any vector, any value of the index type.
Call_get_subset ==
    /\ pc = "idle"
    /\ \E vv \in Vecs, p \in 0..(Modulus - 1) :
        /\ fn' = "get_subset"
        /\ v' = vv
        /\ pos' = p
        /\ \/ /\ get_subset_overflows(vv)
              /\ pc' = "panicked"
              /\ subset' = <<>>
           \/ /\ pc' = "returned"
              /\ subset' = get_subset(vv, p)
    /\ UNCHANGED <<r, qualifies, bound, subsets, positions, calls, visited>>

\* The prologue the six enumerating functions share: the empty accumulator,
\* u_one, and the range 1..(u_one << v.len()).  With overflow checks the shift
\* panics when v.len() is not below the bit width; without, it wraps.
Prologue(f, vv, rr, q) ==
    /\ fn' = f
    /\ v' = vv
    /\ r' = rr
    /\ qualifies' = q
    /\ \/ /\ ShiftOverflows(Len(vv))
          /\ pc' = "panicked"
          /\ UNCHANGED <<pos, bound>>
       \/ /\ pc' = "loop"
          /\ bound' = wrapping_shl(u_one, Len(vv))
          /\ pos' = RangeStart
    /\ UNCHANGED <<subset, subsets, positions, calls, visited>>

Call_all ==
    /\ pc = "idle"
    /\ \E vv \in Vecs : Prologue("all", vv, 0, "none")

Call_all_qualifying ==
    /\ pc = "idle"
    /\ \E vv \in Vecs, q \in Predicates : Prologue("all_qualifying", vv, 0, q)

Call_all_qualifying_positions ==
    /\ pc = "idle"
    /\ \E vv \in Vecs, q \in Predicates : Prologue("all_qualifying_positions", vv, 0, q)

Call_combinations ==
    /\ pc = "idle"
    /\ \E vv \in Vecs : \E rr \in 0..(Len(vv) + 1) :
        Prologue("combinations", vv, rr, "none")

Call_combinations_positions ==
    /\ pc = "idle"
    /\ \E vv \in Vecs : \E rr \in 0..(Len(vv) + 1) :
        Prologue("combinations_positions", vv, rr, "none")

Call_combinations_qualifying_positions ==
    /\ pc = "idle"
    /\ \E vv \in Vecs, q \in Predicates : \E rr \in 0..(Len(vv) + 1) :
        Prologue("combinations_qualifying_positions", vv, rr, q)

\* One iteration of `for pos in 1..bound` in function f.
Iterating(f) ==
    /\ pc = "loop"
    /\ fn = f
    /\ InRange(pos, bound)
    /\ pos' = pos + 1
    /\ visited' = Append(visited, pos)
    /\ UNCHANGED <<pc, fn, v, r, qualifies, bound, subset>>

Iter_all ==
    /\ Iterating("all")
    /\ subsets' = all_body(v, pos, subsets)
    /\ UNCHANGED <<positions, calls>>

Iter_all_qualifying ==
    /\ Iterating("all_qualifying")
    /\ subsets' = all_qualifying_body(v, qualifies, pos, subsets)
    /\ calls' = Append(calls, pos)
    /\ UNCHANGED positions

Iter_all_qualifying_positions ==
    /\ Iterating("all_qualifying_positions")
    /\ positions' = all_qualifying_positions_body(v, qualifies, pos, positions)
    /\ calls' = Append(calls, pos)
    /\ UNCHANGED subsets

Iter_combinations ==
    /\ Iterating("combinations")
    /\ subsets' = combinations_body(v, r, pos, subsets)
    /\ UNCHANGED <<positions, calls>>

Iter_combinations_positions ==
    /\ Iterating("combinations_positions")
    /\ positions' = combinations_positions_body(v, r, pos, positions)
    /\ UNCHANGED <<subsets, calls>>

Iter_combinations_qualifying_positions ==
    /\ Iterating("combinations_qualifying_positions")
    /\ positions' = combinations_qualifying_positions_body(v, r, qualifies, pos, positions)
    /\ calls' = IF combinations_qualifying_positions_calls(r, pos)
                THEN Append(calls, pos) ELSE calls
    /\ UNCHANGED subsets

\* The range is exhausted: the function returns its accumulator.
Return ==
    /\ pc = "loop"
    /\ ~InRange(pos, bound)
    /\ pc' = "returned"
    /\ UNCHANGED <<fn, v, r, qualifies, pos, bound, subset, subsets, positions, calls, visited>>

Next ==
    \/ Call_get_subset
    \/ Call_all
    \/ Call_all_qualifying
    \/ Call_all_qualifying_positions
    \/ Call_combinations
    \/ Call_combinations_positions
    \/ Call_combinations_qualifying_positions
    \/ Iter_all
    \/ Iter_all_qualifying
    \/ Iter_all_qualifying_positions
    \/ Iter_combinations
    \/ Iter_combinations_positions
    \/ Iter_combinations_qualifying_positions
    \/ Return

Spec == Init /\ [][Next]_vars

(***************************************************************************)
(* Vocabulary of the properties.  None of it uses the shifts above: a set   *)
(* of positions is read off an index by division, and a subset is the       *)
(* elements of v at a set of positions.                                     *)
(***************************************************************************)
EnumOps == {"all", "all_qualifying", "all_qualifying_positions", "combinations",
            "combinations_positions", "combinations_qualifying_positions"}

SizedOps == {"combinations", "combinations_positions",
             "combinations_qualifying_positions"}

PositionOps == {"all_qualifying_positions", "combinations_positions",
                "combinations_qualifying_positions"}

Returned(f) == pc = "returned" /\ fn = f

\* The precondition of every enumerating operation (spec section 7): 2^n does
\* not overflow the index type, n being the length of the vector.
Fits(vv) == 2 ^ Len(vv) < Modulus

\* The 0-based positions of the bits set in p.
BitSet(p) == {i \in 0..(IndexBits - 1) : (p \div (2 ^ i)) % 2 = 1}

\* The elements of vv at the 0-based positions in S, in ascending position order.
AtPositions(vv, S) ==
    LET F[i \in 0..Len(vv)] ==
            IF i = 0 THEN <<>>
            ELSE IF (i - 1) \in S THEN Append(F[i - 1], vv[i]) ELSE F[i - 1]
    IN F[Len(vv)]

\* The subset index p denotes: bits at positions >= Len(vv) are ignored.
Decode(vv, p) == AtPositions(vv, BitSet(p) \cap (0..(Len(vv) - 1)))

RECURSIVE Choose(_, _)
Choose(n, k) ==
    IF k = 0 THEN 1
    ELSE IF k > n THEN 0
    ELSE Choose(n - 1, k - 1) + Choose(n - 1, k)

Iota(n) == [k \in 1..n |-> k]

StrictlyIncreasing(s) == \A i \in 1..(Len(s) - 1) : s[i] < s[i + 1]

Range(s) == {s[i] : i \in DOMAIN s}

MapGetSubset(vv, ps) == [k \in 1..Len(ps) |-> get_subset(vv, ps[k])]

OnlyQualifying(q, ss) == LET Test(s) == Qualifies(q, s) IN SelectSeq(ss, Test)

Distinct(vv) == \A i, j \in 1..Len(vv) : i # j => vv[i] # vv[j]

\* The filter of a position-listing operation f, applied to a subset s.
PassesFilter(f, q, rr, s) ==
    CASE f = "all_qualifying_positions" -> Qualifies(q, s)
      [] f = "combinations_positions" -> Len(s) = rr
      [] OTHER -> Len(s) = rr /\ Qualifies(q, s)

\* The result of a sized operation has C(n, r) entries, each of r elements.
CountIsBinomial ==
    /\ fn = "combinations" =>
          /\ Len(subsets) = Choose(Len(v), r)
          /\ \A k \in 1..Len(subsets) : Len(subsets[k]) = r
    /\ fn = "combinations_positions" => Len(positions) = Choose(Len(v), r)

NonEmptyPositionSets(n) == (SUBSET (0..(n - 1))) \ {{}}

SizedPositionSets(n, rr) == {S \in NonEmptyPositionSets(n) : Cardinality(S) = rr}

MinOf(S) == CHOOSE m \in S : \A x \in S : m <= x

MaxIn(S) == CHOOSE m \in S : \A x \in S : m >= x

RECURSIVE AscendingList(_)
AscendingList(S) ==
    IF S = {} THEN <<>> ELSE <<MinOf(S)>> \o AscendingList(S \ {MinOf(S)})

RECURSIVE DescendingList(_)
DescendingList(S) ==
    IF S = {} THEN <<>> ELSE <<MaxIn(S)>> \o DescendingList(S \ {MaxIn(S)})

\* a precedes b lexicographically.
LexLess(a, b) ==
    \E i \in 1..(Len(b)) :
        /\ i <= Len(a) + 1
        /\ \A j \in 1..(i - 1) : a[j] = b[j]
        /\ (i = Len(a) + 1 \/ a[i] < b[i])

\* The positions listed: the result of combinations_positions, which is what
\* combinations decodes one by one.
ListedPositions ==
    IF fn = "combinations" THEN combinations_positions(v, r) ELSE positions

ListsSubsetsOf(ps) ==
    fn = "combinations" =>
        subsets = [k \in 1..Len(ps) |-> AtPositions(v, BitSet(ps[k]))]

(***************************************************************************)
(* C1: all(v) returns exactly 2^n - 1 subsets, the k-th (1-based) being     *)
(* get_subset(v, k), the subset index k denotes; for n = 0 the result is    *)
(* empty, and the empty subset is never part of a result.                   *)
(***************************************************************************)
C1_AllInIndexOrder ==
    (Returned("all") /\ Fits(v)) =>
        /\ Len(subsets) = 2 ^ Len(v) - 1
        /\ \A k \in 1..Len(subsets) :
              /\ subsets[k] = get_subset(v, k)
              /\ subsets[k] = Decode(v, k)
              /\ subsets[k] # <<>>
        /\ (Len(v) = 0 => subsets = <<>>)

C1_Witness ==
    /\ Returned("all")
    /\ v = <<1, 2, 3>>
    /\ subsets = << <<1>>, <<2>>, <<1, 2>>, <<3>>, <<1, 3>>, <<2, 3>>, <<1, 2, 3>> >>

(***************************************************************************)
(* C2: for 0 <= r <= n, combinations(v, r) returns exactly C(n, r) subsets, *)
(* each of length r, and combinations_positions(v, r) returns C(n, r)       *)
(* positions.  As stated this fails at r = 0: C(n, 0) = 1, and the loop     *)
(* starts at index 1, so the empty subset is never listed.                  *)
(***************************************************************************)
C2_BinomialCount_FromZero ==
    (pc = "returned" /\ Fits(v) /\ 0 <= r /\ r <= Len(v)) => CountIsBinomial

\* C2 as amended: for 1 <= r <= n combinations(v, r) returns exactly C(n, r)
\* subsets, each of length r, and combinations_positions(v, r) returns C(n, r)
\* positions.
C2_BinomialCount ==
    (pc = "returned" /\ Fits(v) /\ 1 <= r /\ r <= Len(v)) => CountIsBinomial

C2_Witness ==
    /\ Returned("combinations")
    /\ v = <<1, 2, 3>>
    /\ r = 2
    /\ subsets = << <<1, 2>>, <<1, 3>>, <<2, 3>> >>

(***************************************************************************)
(* C3: for r = 0 and for r > n the three sized operations return the empty  *)
(* list (nothing is ever pushed), they do not panic, and the predicate is   *)
(* never invoked.                                                           *)
(***************************************************************************)
C3_DegenerateSizes ==
    (fn \in SizedOps /\ (r = 0 \/ r > Len(v))) =>
        /\ subsets = <<>>
        /\ positions = <<>>
        /\ calls = <<>>
        /\ Fits(v) => pc # "panicked"

C3_Witness ==
    /\ Returned("combinations_qualifying_positions")
    /\ v = <<1, 2, 3>>
    /\ r = 4
    /\ qualifies = "sum_lt_5"
    /\ visited = Iota(7)
    /\ positions = <<>>

(***************************************************************************)
(* C4: a position-listing operation returns a strictly increasing list of   *)
(* exactly those p in 1 .. 2^n - 1 whose subset all(v)[p - 1] (p a 1-based  *)
(* ordinal: element p of the sequence all(v) here) passes the operation's   *)
(* filter.                                                                  *)
(***************************************************************************)
C4_PositionsAreOrdinals ==
    (pc = "returned" /\ fn \in PositionOps /\ Fits(v)) =>
        /\ StrictlyIncreasing(positions)
        /\ Range(positions) =
              {p \in 1..(2 ^ Len(v) - 1) : PassesFilter(fn, qualifies, r, all(v)[p])}

C4_Witness ==
    /\ Returned("all_qualifying_positions")
    /\ v = <<1, 2, 3>>
    /\ qualifies = "sum_lt_5"
    /\ positions = <<1, 2, 3, 4, 5>>

(***************************************************************************)
(* C5: the subset-returning and the index-returning variants agree element  *)
(* by element: get_subset mapped over the positions gives the subsets, and  *)
(* get_subset mapped over combinations_qualifying_positions(v, r, P) is     *)
(* combinations(v, r) with the subsets failing P removed.                   *)
(***************************************************************************)
C5_VariantsAgree ==
    pc = "returned" =>
        /\ fn = "all_qualifying" =>
              subsets = MapGetSubset(v, all_qualifying_positions(v, qualifies))
        /\ fn = "all_qualifying_positions" =>
              MapGetSubset(v, positions) = all_qualifying(v, qualifies)
        /\ fn = "combinations" =>
              subsets = MapGetSubset(v, combinations_positions(v, r))
        /\ fn = "combinations_positions" =>
              MapGetSubset(v, positions) = combinations(v, r)
        /\ fn = "combinations_qualifying_positions" =>
              MapGetSubset(v, positions) = OnlyQualifying(qualifies, combinations(v, r))

C5_Witness ==
    /\ Returned("combinations_qualifying_positions")
    /\ v = <<1, 2, 3>>
    /\ r = 2
    /\ qualifies = "sum_lt_5"
    /\ positions = <<3, 5>>
    /\ combinations(v, r) = << <<1, 2>>, <<1, 3>>, <<2, 3>> >>

(***************************************************************************)
(* C6: get_subset(v, pos) is total for a vector of any length, also one     *)
(* longer than the index type has bits: it never panics, and it returns     *)
(* exactly the elements at the positions i < n whose bit i of pos is set,   *)
(* so its length is the population count of pos masked to its low n bits.   *)
(***************************************************************************)
C6_GetSubsetTotal ==
    fn = "get_subset" =>
        /\ pc # "panicked"
        /\ pc = "returned" =>
              /\ subset = Decode(v, pos)
              /\ Len(subset) = Cardinality(BitSet(pos) \cap (0..(Len(v) - 1)))

(***************************************************************************)
(* C7: for pairwise distinct elements get_subset(v, .) is a bijection from  *)
(* 1 .. 2^n - 1 onto the non-empty subsets of v: all(v) lists every one     *)
(* exactly once and no two entries are equal.  Equal elements give equal    *)
(* entries, which are passed through: combinations(<<1,2,2,3>>, 3) lists    *)
(* <<1,2,3>> twice.                                                         *)
(***************************************************************************)
C7_BijectionWhenDistinct ==
    /\ (Returned("all") /\ Fits(v)) =>
          /\ Distinct(v) =>
                /\ \A S \in NonEmptyPositionSets(Len(v)) :
                      Cardinality({k \in 1..Len(subsets) :
                                      subsets[k] = AtPositions(v, S)}) = 1
                /\ \A j, k \in 1..Len(subsets) : j # k => subsets[j] # subsets[k]
          /\ ~Distinct(v) =>
                \E j, k \in 1..Len(subsets) : j # k /\ subsets[j] = subsets[k]
    /\ (Returned("combinations") /\ v = <<1, 2, 2, 3>> /\ r = 3) =>
          subsets = << <<1, 2, 2>>, <<1, 2, 3>>, <<1, 2, 3>>, <<2, 2, 3>> >>

C7_Witness ==
    /\ Returned("all")
    /\ v = <<1, 2, 3, 4>>
    /\ Len(subsets) = 15
    /\ subsets[6] = <<2, 3>>
    /\ subsets[9] = <<1, 4>>

(***************************************************************************)
(* C8: all_qualifying and all_qualifying_positions invoke the predicate     *)
(* once for each index 1 .. 2^n - 1, in increasing order, also where it     *)
(* returns false: 2^n - 1 invocations per call, none repeated or skipped.   *)
(***************************************************************************)
C8_PredicateOncePerIndex ==
    (fn \in {"all_qualifying", "all_qualifying_positions"} /\ Fits(v)) =>
        /\ pc = "loop" => calls = Iota(pos - 1)
        /\ pc = "returned" => calls = Iota(2 ^ Len(v) - 1)

C8_Witness ==
    /\ Returned("all_qualifying")
    /\ v = <<1, 2, 3>>
    /\ qualifies = "never"
    /\ subsets = <<>>
    /\ calls = <<1, 2, 3, 4, 5, 6, 7>>

(***************************************************************************)
(* C9: the order in which combinations(v, r) and combinations_positions(v,  *)
(* r) list the size-r subsets (increasing index order) is the lexicographic *)
(* order of their position-sets read as ascending lists of positions.       *)
(* As stated this fails from n = 4 on: for r = 2 index 6 (positions 1, 2)   *)
(* precedes index 9 (positions 0, 3).                                       *)
(***************************************************************************)
C9_LexicographicAscending ==
    (pc = "returned" /\ fn \in {"combinations", "combinations_positions"} /\ Fits(v)) =>
        LET ps == ListedPositions IN
        /\ ListsSubsetsOf(ps)
        /\ \A j, k \in 1..Len(ps) :
              j < k => LexLess(AscendingList(BitSet(ps[j])), AscendingList(BitSet(ps[k])))

\* C9 as amended: the listing order is the colexicographic order: the
\* lexicographic order of the position-sets read as descending lists (largest
\* position first); the list holds every non-empty set of r positions below n,
\* the k-th entry being the one with k - 1 such sets before it in that order.
C9_LexicographicDescending ==
    (pc = "returned" /\ fn \in {"combinations", "combinations_positions"} /\ Fits(v)) =>
        LET ps == ListedPositions
            sets == SizedPositionSets(Len(v), r)
        IN
        /\ ListsSubsetsOf(ps)
        /\ Len(ps) = Cardinality(sets)
        /\ \A k \in 1..Len(ps) :
              /\ BitSet(ps[k]) \in sets
              /\ Cardinality({S \in sets :
                     LexLess(DescendingList(S), DescendingList(BitSet(ps[k])))}) = k - 1
        /\ \A j, k \in 1..Len(ps) :
              j < k => LexLess(DescendingList(BitSet(ps[j])),
                               DescendingList(BitSet(ps[k])))

C9_Witness ==
    /\ Returned("combinations_positions")
    /\ Len(v) = 4
    /\ r = 2
    /\ positions = <<3, 5, 6, 9, 10, 12>>

(***************************************************************************)
(* C10: the bound 1 << n never wraps silently: whatever n is, also n at or  *)
(* above the bit width of the index type, an operation that returns has     *)
(* visited exactly the indices 1 .. 2^n - 1.                                *)
(***************************************************************************)
C10_BoundNeverWraps ==
    (pc = "returned" /\ fn \in EnumOps) => visited = Iota(2 ^ Len(v) - 1)

====
